---------------------------- MODULE Spec2Model ----------------------------
(***************************************************************************)
(* SuspiciousLoginAnalyzer: the anomaly detection and risk scoring         *)
(* pipeline.  Four batch programs are modelled, each as a sequential       *)
(* state machine over its tables:                                          *)
(*   - analysis/enrich_time_geo.py  (SpecTimeGeo)                          *)
(*   - ml/features.py               (SpecFeatures)                         *)
(*   - ml/train_unsupervised.py     (SpecUnsupervised: train_models;       *)
(*                                   SpecUnsupervisedMain: load_reports    *)
(*                                   and main)                             *)
(*   - ml/train_supervised.py       (SpecSupervised)                       *)
(* Tables are sequences of records; a pandas NaN / NaT cell is the         *)
(* integer NaN and a text cell the integer Unparseable (all numeric cell   *)
(* values of the model are >= 0).                                          *)
(***************************************************************************)
EXTENDS Integers, Sequences, FiniteSets, TLC

VARIABLES
    tg_pc,      \* enrich_time_geo.py: position in the script
    tg_inp,     \* the input CSV: [exists, cols, rows]
    tg_df,      \* the working frame df (a sequence of rows)
    tg_out,     \* TimeGeo_Anomalies.csv: [written, cols, rows]
    tg_err,     \* the exception that ended the script, or "none"
    fb_pc,      \* build_user_features: "input" or "built"
    fb_src,     \* the three report files: [events, dist, pairs]
    fb_res,     \* what build_user_features returned or raised
    un_pc,      \* train_models: "start" or "trained"
    un_feats,   \* df_feats: one row per user, sorted by User
    un_raw,     \* the detectors' raw scores of the rows: [iforest, ocsvm]
    un_out,     \* the score table train_models returns
    um_pc,      \* train_unsupervised.py main: position in the function
    um_src,     \* the two report files load_reports reads: [events, dist]
    um_feats,   \* df_feats, the frame load_reports returned
    um_scores,  \* scores, the table train_models returned
    um_files,   \* the artifacts written to outdir so far
    um_err,     \* the exception that ended the run, or "none"
    sp_pc,      \* train_supervised.py main: position in the function
    sp_feats,   \* feats: the feature table, one row per user
    sp_labels,  \* Reports/labels.csv: [status, label]
    sp_df,      \* df: the inner join of feats and labels
    sp_split,   \* the train / held-out positions of df: [tr, te, held]
    sp_scaler,  \* the StandardScaler: [fitted, n, sum, sumsq]
    sp_clf,     \* the RandomForestClassifier: [fitted, classes, rows, stats]
    sp_out,     \* Reports/ML_Findings_Supervised.csv: [written, rows]
    sp_imp,     \* Reports/feature_importances.csv: [written]
    sp_log,     \* what the run printed
    sp_err      \* the exception or exit that ended the run, or "none"

tgVars == <<tg_pc, tg_inp, tg_df, tg_out, tg_err>>
fbVars == <<fb_pc, fb_src, fb_res>>
unVars == <<un_pc, un_feats, un_raw, un_out>>
umVars == <<um_pc, um_src, um_feats, um_scores, um_files, um_err>>
spVars == <<sp_pc, sp_feats, sp_labels, sp_df, sp_split, sp_scaler, sp_clf,
            sp_out, sp_imp, sp_log, sp_err>>

vars == <<tgVars, fbVars, unVars, umVars, spVars>>

\* What each program leaves alone: the state of the other programs
tgOthers == <<fbVars, unVars, umVars, spVars>>
fbOthers == <<tgVars, unVars, umVars, spVars>>
unOthers == <<tgVars, fbVars, umVars, spVars>>
umOthers == <<tgVars, fbVars, unVars, spVars>>
spOthers == <<tgVars, fbVars, unVars, umVars>>

-----------------------------------------------------------------------------
(* Generic helpers                                                         *)

NaN == -1

Users == {1, 2}

Max(a, b) == IF a >= b THEN a ELSE b

RECURSIVE GCD(_, _)
GCD(a, b) == IF b = 0 THEN a ELSE GCD(b, a % b)

\* A non-negative rational num/den in lowest terms
Frac(num, den) ==
    LET g == GCD(num, den) IN [num |-> num \div g, den |-> den \div g]

\* Sum of the function f over the subset S of its domain
RECURSIVE SumOver(_, _)
SumOver(S, f) ==
    IF S = {} THEN 0
    ELSE LET x == CHOOSE y \in S : TRUE IN f[x] + SumOver(S \ {x}, f)

-----------------------------------------------------------------------------
(* analysis/enrich_time_geo.py                                             *)

\* Bounds of the time/geo input
MaxEvents == 3
MaxHour == 1

NaT == NaN

\* Timestamps are seconds since midnight UTC, on whole hours
Times == {h * 3600 : h \in 0..MaxHour}

\* Latitudes of the model's places.  All places lie on the meridian Lon = 0
\* and a latitude is written as its arc length from the equator in km
\* (R * radians(lat)), so that the great-circle distance of two places is
\* the difference of their latitudes.
LatVals == {0, 10, 910, 2010}

TGOptionalCols == {"Country", "Lat", "Lon"}

\* The coordinate cells a row can hold under a given header
TGGeo(cols) ==
    IF {"Lat", "Lon"} \subseteq cols
    THEN {<<NaN, NaN>>, <<0, NaN>>} \cup {<<l, 0>> : l \in LatVals}
    ELSE IF "Lat" \in cols THEN {<<NaN, NaN>>, <<0, NaN>>}
    ELSE IF "Lon" \in cols THEN {<<NaN, NaN>>, <<NaN, 0>>}
    ELSE {<<NaN, NaN>>}

\* The rows of the input: the User cell may be empty (NaN), the Timestamp
\* cell may not parse (NaT)
TGRows(cols) ==
    {[User |-> u, Timestamp |-> t, Lat |-> g[1], Lon |-> g[2]] :
        u \in Users \cup {NaN}, t \in Times \cup {NaT}, g \in TGGeo(cols)}

NoSpeed == [kind |-> "nan", num |-> 0, den |-> 1]
InfSpeed == [kind |-> "inf", num |-> 0, den |-> 1]
FinSpeed(num, den) == [kind |-> "fin"] @@ Frac(num, den)

NoZ == [kind |-> "nan", sgn |-> 0, num |-> 0, den |-> 1]
ZeroZ == [kind |-> "num", sgn |-> 0, num |-> 0, den |-> 1]

\* haversine_km on the model's places (same meridian): R * |dphi|
Abs(x) == IF x < 0 THEN -x ELSE x
haversine_km(lat1, lon1, lat2, lon2) == Abs(lat2 - lat1)

\* A frame row: the input cells, the input row number, and the added columns
TGFrameRow(r, i) ==
    [idx |-> i, User |-> r.User, Timestamp |-> r.Timestamp,
     Lat |-> r.Lat, Lon |-> r.Lon,
     Hour |-> NaN, HourZ |-> NoZ, SpeedKmh |-> NoSpeed, GeoJumpFlag |-> FALSE]

\* lines 36-37: rows whose Timestamp parses, stably sorted by (User,
\* Timestamp); rows with an empty User cell sort last (na_position="last")
TGKeyLess(a, b) ==
    \/ a.User # NaN /\ (b.User = NaN \/ a.User < b.User)
    \/ a.User = b.User /\ a.Timestamp < b.Timestamp

TGKeyEq(a, b) == a.User = b.User /\ a.Timestamp = b.Timestamp

StableSortByUserTime(s) ==
    LET n == Len(s)
        rank(i) == Cardinality({j \in 1..n :
                        \/ TGKeyLess(s[j], s[i])
                        \/ TGKeyEq(s[j], s[i]) /\ j <= i})
    IN [k \in 1..n |-> s[CHOOSE i \in 1..n : rank(i) = k]]

dropna_Timestamp(s) == SelectSeq(s, LAMBDA r : r.Timestamp # NaT)

\* line 38: df["Timestamp"].dt.hour
HourOf(t) == (t \div 3600) % 24


\* Concatenation of a sequence of sequences
RECURSIVE Flatten(_)
Flatten(ss) == IF ss = <<>> THEN <<>> ELSE Head(ss) \o Flatten(Tail(ss))

\* pandas merge(how="left"): every left row, in order, once per matching
\* right row (in right order), or once with the right cells missing
LeftMerge(left, right, match(_, _), join(_, _), miss(_)) ==
    Flatten([i \in 1..Len(left) |->
        LET m == SelectSeq(right, LAMBDA r : match(left[i], r))
        IN IF m = <<>> THEN <<miss(left[i])>>
           ELSE [j \in 1..Len(m) |-> join(left[i], m[j])]])

\* line 41: groupby(["User","Hour"]).size(): one row per occupied bucket,
\* in key order; groupby leaves out the rows whose key is NaN
HourKeyLess(a, b) ==
    \/ a.User < b.User
    \/ a.User = b.User /\ a.Hour < b.Hour

RECURSIVE HourKeySeq(_)
HourKeySeq(S) ==
    IF S = {} THEN <<>>
    ELSE LET m == CHOOSE x \in S : \A y \in S : x = y \/ HourKeyLess(x, y)
         IN <<m>> \o HourKeySeq(S \ {m})

hour_counts_size(df) ==
    LET keys == {[User |-> df[i].User, Hour |-> df[i].Hour] :
                    i \in {j \in DOMAIN df : df[j].User # NaN}}
        ks == HourKeySeq(keys)
    IN [k \in 1..Len(ks) |->
          [User |-> ks[k].User, Hour |-> ks[k].Hour,
           Count |-> Cardinality({i \in DOMAIN df :
                        df[i].User = ks[k].User /\ df[i].Hour = ks[k].Hour})]]

\* line 43: per user, mean and std of the bucket counts.  The statistics are
\* kept as n (buckets), sum and sum of squares: mean = sum/n and
\* std^2 = (n*sumsq - sum^2) / (n*(n-1)) (ddof = 1), NaN when n = 1.
hour_stats_agg(hc) ==
    LET us == {hc[i].User : i \in DOMAIN hc}
        ofUser(u) == {i \in DOMAIN hc : hc[i].User = u}
    IN [u \in us |->
          [n |-> Cardinality(ofUser(u)),
           sum |-> SumOver(ofUser(u), [i \in DOMAIN hc |-> hc[i].Count]),
           sumsq |-> SumOver(ofUser(u),
                        [i \in DOMAIN hc |-> hc[i].Count * hc[i].Count])]]

StdIsNaN(st) == st.n < 2
StdIsZero(st) == st.n >= 2 /\ st.n * st.sumsq - st.sum * st.sum = 0

Sign(x) == IF x > 0 THEN 1 ELSE IF x < 0 THEN -1 ELSE 0

\* line 45: (Count - mean) / std.replace(0, NaN).  A finite quotient is kept
\* as its sign and its square:
\*   ((n*c - sum)^2 * (n-1)) / (n * (n*sumsq - sum^2))
HourZDivide(c, st) ==
    IF StdIsNaN(st) \/ StdIsZero(st) THEN NoZ
    ELSE LET d == st.n * c - st.sum
         IN [kind |-> "num", sgn |-> Sign(d)]
              @@ Frac(d * d * (st.n - 1),
                      st.n * (st.n * st.sumsq - st.sum * st.sum))

HourZNoFillna(z) == z

\* line 46: fillna(0)
HourZFillna(z) == IF z.kind = "nan" THEN ZeroZ ELSE z

\* lines 41-46: hour_counts with its HourZ column
hour_counts_HourZ(df) ==
    LET hc == hour_counts_size(df)
        st == hour_stats_agg(hc)
    IN [k \in 1..Len(hc) |->
          [User |-> hc[k].User, Hour |-> hc[k].Hour, Count |-> hc[k].Count,
           HourZ |-> HourZFillna(HourZDivide(hc[k].Count, st[hc[k].User]))]]

\* line 48: df.merge(hour_counts[["User","Hour","HourZ"]], on=["User","Hour"],
\* how="left")
merge_HourZ(df, hc) ==
    LeftMerge(df, hc,
              LAMBDA l, r : l.User = r.User /\ l.Hour = r.Hour,
              LAMBDA l, r : [l EXCEPT !.HourZ = r.HourZ],
              LAMBDA l : [l EXCEPT !.HourZ = NoZ])


\* line 68: groupby("User") forms one group per user; rows whose User is
\* NaN are in no group
groupby_User(df) == SelectSeq(df, LAMBDA r : r.User # NaN)

\* line 54: g.sort_values("Timestamp") inside each user's group.  The sort
\* is numpy's default (not stable), so rows of equal Timestamp may come out
\* in any order; line 68 concatenates the groups in User order.
GroupArrangements(df) ==
    LET n == Len(df)
        perms == {p \in [1..n -> 1..n] : \A i, j \in 1..n : i # j => p[i] # p[j]}
        arr(p) == [i \in 1..n |-> df[p[i]]]
    IN {arr(p) : p \in {q \in perms :
            \A i \in 1..(n - 1) : ~TGKeyLess(arr(q)[i + 1], arr(q)[i])}}

HasPrevOfAnyUser(g, i) == i > 1

\* lines 55-58: the shifted cells and the mask of row i of a sorted frame
HasPrev(g, i) == i > 1 /\ g[i - 1].User = g[i].User

SpeedMask(g, i) ==
    /\ g[i].Lat # NaN /\ g[i].Lon # NaN
    /\ HasPrev(g, i)
    /\ g[i - 1].Lat # NaN /\ g[i - 1].Lon # NaN
    /\ g[i - 1].Timestamp # NaT

\* lines 62-64: d / dt_h with dt_h = total_seconds / 3600, inf if dt_h <= 0
SpeedOf(prev, row) ==
    LET d == haversine_km(prev.Lat, prev.Lon, row.Lat, row.Lon)
        secs == row.Timestamp - prev.Timestamp
    IN IF secs > 0 THEN FinSpeed(d * 3600, secs) ELSE InfSpeed

\* lines 53-67
calc_speed(g) ==
    [i \in 1..Len(g) |->
        IF SpeedMask(g, i)
        THEN [g[i] EXCEPT !.SpeedKmh = SpeedOf(g[i - 1], g[i])]
        ELSE g[i]]

\* line 70: (df["SpeedKmh"] > 900).fillna(False)
SpeedThreshold == 900

OverThresholdInclusive(v) ==
    CASE v.kind = "inf" -> TRUE
      [] v.kind = "fin" -> v.num >= SpeedThreshold * v.den
      [] OTHER -> FALSE

OverThreshold(v) ==
    CASE v.kind = "inf" -> TRUE
      [] v.kind = "fin" -> v.num > SpeedThreshold * v.den
      [] OTHER -> FALSE

flag_jumps(df) ==
    [i \in 1..Len(df) |-> [df[i] EXCEPT !.GeoJumpFlag = OverThreshold(df[i].SpeedKmh)]]

\* lines 76-77: the columns written
TGAdded == {"Hour", "HourZ", "SpeedKmh", "GeoJumpFlag"}

OutputColumns(cols) ==
    IF "Country" \in cols
    THEN {"User", "Timestamp", "Country", "Lat", "Lon"} \cup TGAdded
    ELSE {"User", "Timestamp"} \cup TGAdded

NoTable == [written |-> FALSE, cols |-> {}, rows |-> <<>>]

TGInit ==
    /\ tg_pc = "start"
    /\ \/ tg_inp = [exists |-> FALSE, cols |-> {}, rows |-> <<>>]
       \/ tg_inp = [exists |-> TRUE, cols |-> {"Timestamp"}, rows |-> <<>>]
       \/ \E o \in SUBSET TGOptionalCols : \E k \in 0..MaxEvents :
            \E r \in [1..k -> TGRows(o)] :
               tg_inp = [exists |-> TRUE, cols |-> {"User", "Timestamp"} \cup o,
                         rows |-> r]
    /\ tg_df = <<>>
    /\ tg_out = NoTable
    /\ tg_err = "none"

\* lines 28-34: the input must exist and hold User and Timestamp
TGLoad ==
    /\ tg_pc = "start"
    /\ IF ~tg_inp.exists
       THEN tg_pc' = "failed" /\ tg_err' = "FileNotFoundError" /\ tg_df' = tg_df
       ELSE IF ~({"User", "Timestamp"} \subseteq tg_inp.cols)
       THEN tg_pc' = "failed" /\ tg_err' = "ValueError" /\ tg_df' = tg_df
       ELSE /\ tg_pc' = "loaded"
            /\ tg_err' = tg_err
            /\ tg_df' = [i \in 1..Len(tg_inp.rows) |-> TGFrameRow(tg_inp.rows[i], i)]
    /\ UNCHANGED <<tg_inp, tg_out, tgOthers>>

\* lines 36-38: parse, drop unparseable rows, sort, take the hour
TGParseSort ==
    /\ tg_pc = "loaded"
    /\ LET kept == StableSortByUserTime(dropna_Timestamp(tg_df))
       IN tg_df' = [i \in 1..Len(kept) |->
                        [kept[i] EXCEPT !.Hour = HourOf(kept[i].Timestamp)]]
    /\ tg_pc' = "sorted"
    /\ UNCHANGED <<tg_inp, tg_out, tg_err, tgOthers>>

\* lines 41-48: HourZ per (User, Hour) bucket, joined onto the events
TGHourZ ==
    /\ tg_pc = "sorted"
    /\ tg_df' = merge_HourZ(tg_df, hour_counts_HourZ(tg_df))
    /\ tg_pc' = "hourz"
    /\ UNCHANGED <<tg_inp, tg_out, tg_err, tgOthers>>

\* lines 51-73: the speed of each event from its predecessor, and the flag
TGSpeed ==
    /\ tg_pc = "hourz"
    /\ IF {"Lat", "Lon"} \subseteq tg_inp.cols
       THEN \E g \in GroupArrangements(groupby_User(tg_df)) :
                tg_df' = flag_jumps(calc_speed(g))
       ELSE tg_df' = [i \in 1..Len(tg_df) |->
                        [tg_df[i] EXCEPT !.SpeedKmh = NoSpeed, !.GeoJumpFlag = FALSE]]
    /\ tg_pc' = "speed"
    /\ UNCHANGED <<tg_inp, tg_out, tg_err, tgOthers>>

\* lines 75-77: select the output columns and write the CSV
TGWrite ==
    /\ tg_pc = "speed"
    /\ LET want == OutputColumns(tg_inp.cols)
       IN IF want \subseteq (tg_inp.cols \cup TGAdded)
          THEN /\ tg_out' = [written |-> TRUE, cols |-> want, rows |-> tg_df]
               /\ tg_pc' = "done"
               /\ tg_err' = tg_err
          ELSE /\ tg_out' = tg_out
               /\ tg_pc' = "failed"
               /\ tg_err' = "KeyError"
    /\ UNCHANGED <<tg_inp, tg_df, tgOthers>>

TGNext == TGLoad \/ TGParseSort \/ TGHourZ \/ TGSpeed \/ TGWrite

\* The script is not run
TGIdle ==
    /\ tg_pc = "off"
    /\ tg_inp = [exists |-> FALSE, cols |-> {}, rows |-> <<>>]
    /\ tg_df = <<>>
    /\ tg_out = NoTable
    /\ tg_err = "none"


-----------------------------------------------------------------------------
(* Claims about the time/geo detector                                      *)

\* The frames in which the speed pass has run: df after line 73, and the
\* written table
TGSpeedFrames ==
    (IF tg_pc = "speed" THEN {tg_df} ELSE {})
        \cup (IF tg_out.written THEN {tg_out.rows} ELSE {})

\* The frames in which HourZ has been joined
TGHourZFrames ==
    (IF tg_pc \in {"hourz", "speed"} THEN {tg_df} ELSE {})
        \cup (IF tg_out.written THEN {tg_out.rows} ELSE {})

HasCoords(r) == r.Lat # NaN /\ r.Lon # NaN

\* The positions before i that hold an event of the same user
EarlierOfUser(d, i) == {j \in 1..(i - 1) : d[j].User = d[i].User}

PredOf(d, i) == CHOOSE j \in EarlierOfUser(d, i) : \A k \in EarlierOfUser(d, i) : k <= j

SpeedAsClaimed(d, i) ==
    LET r == d[i]
        v == r.SpeedKmh
    IN /\ (EarlierOfUser(d, i) = {} \/ ~HasCoords(r))
            => v.kind = "nan" /\ ~r.GeoJumpFlag
       /\ (EarlierOfUser(d, i) # {} /\ HasCoords(r) /\ HasCoords(d[PredOf(d, i)]))
            => LET q == d[PredOf(d, i)]
                   km == Abs(r.Lat - q.Lat)
                   secs == r.Timestamp - q.Timestamp
               IN /\ secs > 0 => v.kind = "fin" /\ v.num * secs = km * 3600 * v.den
                  /\ secs <= 0 => v.kind = "inf"
                  /\ (km = 2000 /\ secs = 3600)
                        => v.num = 2000 /\ v.den = 1 /\ r.GeoJumpFlag
                  /\ (km = 10 /\ secs = 3600) => ~r.GeoJumpFlag
       /\ r.GeoJumpFlag <=> (v.kind = "inf" \/ (v.kind = "fin" /\ v.num > 900 * v.den))

\* C8: each user's events are in ascending Timestamp order whatever the
\* input row order; an event with coordinates whose immediate predecessor of
\* the same user has coordinates gets SpeedKmh = distance / elapsed hours
\* (infinite when no time elapsed); GeoJumpFlag holds exactly when SpeedKmh
\* is strictly above 900; a user's first event and events without
\* coordinates get a null SpeedKmh and a false flag; 2000 km in one hour is
\* speed 2000 and flagged, 10 km in one hour is not flagged.
C8_ImpossibleTravel ==
    \A d \in TGSpeedFrames :
        /\ \A i, j \in DOMAIN d :
              (i < j /\ d[i].User = d[j].User) => d[i].Timestamp <= d[j].Timestamp
        /\ \A i \in DOMAIN d : SpeedAsClaimed(d, i)

C8_Witness ==
    /\ tg_out.written
    /\ \E i, k \in DOMAIN tg_out.rows :
          /\ tg_out.rows[i].SpeedKmh = [kind |-> "fin", num |-> 2000, den |-> 1]
          /\ tg_out.rows[i].GeoJumpFlag
          /\ tg_out.rows[k].SpeedKmh.kind = "nan"
          /\ tg_inp.rows[1].Timestamp > tg_inp.rows[2].Timestamp
          /\ tg_inp.rows[1].User = tg_inp.rows[2].User

BucketCount(d, u, h) == Cardinality({j \in DOMAIN d : d[j].User = u /\ d[j].Hour = h})

HoursOf(d, u) == {d[j].Hour : j \in {k \in DOMAIN d : d[k].User = u}}

HourZAsClaimed(d, i) ==
    LET u == d[i].User
        z == d[i].HourZ
        c == BucketCount(d, u, d[i].Hour)
        hs == HoursOf(d, u)
        n == Cardinality(hs)
        S == SumOver(hs, [h \in hs |-> BucketCount(d, u, h)])
        Q == SumOver(hs, [h \in hs |-> BucketCount(d, u, h) * BucketCount(d, u, h)])
        flat == n = 1 \/ \A h1, h2 \in hs : BucketCount(d, u, h1) = BucketCount(d, u, h2)
    IN /\ z.kind = "num"
       /\ d[i].Hour = (d[i].Timestamp \div 3600) % 24
       /\ flat => z.sgn = 0 /\ z.num = 0
       /\ ~flat => /\ z.sgn = Sign(n * c - S)
                   \* z^2 = (c - S/n)^2 / ((Q - S^2/n) / (n - 1))
                   /\ z.num * n * (n * Q - S * S)
                        = (n * c - S) * (n * c - S) * (n - 1) * z.den

C10_OptionalColumns ==
    (tg_inp.exists /\ {"User", "Timestamp"} \subseteq tg_inp.cols) =>
        /\ tg_pc # "failed"
        /\ tg_pc = "done" =>
              /\ tg_out.written
              /\ tg_out.cols = tg_inp.cols \cup TGAdded
              /\ (\A i \in DOMAIN tg_out.rows : ~HasCoords(tg_out.rows[i]))
                    => \A i \in DOMAIN tg_out.rows :
                          /\ tg_out.rows[i].SpeedKmh.kind = "nan"
                          /\ ~tg_out.rows[i].GeoJumpFlag

\* The geolocated events of the user of row i that come before it
EarlierGeolocated(d, i) == {j \in EarlierOfUser(d, i) : HasCoords(d[j])}

\* C17: the speed of a geolocated event is taken against the immediate
\* predecessor among the same user's geolocated events: in a user's events
\* A (coordinates), B (none), C (coordinates), in ascending time order, C
\* gets the speed of the distance and the elapsed time from A to C.
C17_SpeedFromLastGeolocated ==
    \A d \in TGSpeedFrames :
        \A i \in DOMAIN d :
            (HasCoords(d[i]) /\ EarlierGeolocated(d, i) # {}) =>
                LET q == d[CHOOSE j \in EarlierGeolocated(d, i) :
                                \A k \in EarlierGeolocated(d, i) : k <= j]
                    km == Abs(d[i].Lat - q.Lat)
                    secs == d[i].Timestamp - q.Timestamp
                    v == d[i].SpeedKmh
                IN /\ secs > 0 => v.kind = "fin" /\ v.num * secs = km * 3600 * v.den
                   /\ secs <= 0 => v.kind = "inf"

\* The tables a run on the given input rows can write
TGOutputs(rows, cols) ==
    LET kept == StableSortByUserTime(dropna_Timestamp(
                    [i \in 1..Len(rows) |-> TGFrameRow(rows[i], i)]))
        hours == [i \in 1..Len(kept) |->
                    [kept[i] EXCEPT !.Hour = HourOf(kept[i].Timestamp)]]
        hz == merge_HourZ(hours, hour_counts_HourZ(hours))
    IN IF {"Lat", "Lon"} \subseteq cols
       THEN {flag_jumps(calc_speed(g)) : g \in GroupArrangements(groupby_User(hz))}
       ELSE {[i \in 1..Len(hz) |->
                [hz[i] EXCEPT !.SpeedKmh = NoSpeed, !.GeoJumpFlag = FALSE]]}

\* The output rows of user u: the written cells, in output order
OutputOfUser(d, u) ==
    LET mine == SelectSeq(d, LAMBDA r : r.User = u)
    IN [i \in 1..Len(mine) |->
          [Timestamp |-> mine[i].Timestamp, Lat |-> mine[i].Lat,
           Lon |-> mine[i].Lon, Hour |-> mine[i].Hour, HourZ |-> mine[i].HourZ,
           SpeedKmh |-> mine[i].SpeedKmh, GeoJumpFlag |-> mine[i].GeoJumpFlag]]

\* C19: Hour, HourZ, SpeedKmh and GeoJumpFlag of the events of a user depend
\* on that user's events only: the output rows of user u are those of a run
\* on u's events alone, whatever events of other users the input holds and
\* wherever they stand in it.
C19_PerUserIndependence ==
    tg_pc = "done" =>
        \A u \in Users :
            OutputOfUser(tg_out.rows, u) \in
                {OutputOfUser(o, u) :
                    o \in TGOutputs(SelectSeq(tg_inp.rows, LAMBDA r : r.User = u),
                                    tg_inp.cols)}

C19_Witness ==
    /\ tg_pc = "done"
    /\ Len(tg_inp.rows) = MaxEvents
    /\ tg_inp.rows[1].User = 1 /\ tg_inp.rows[2].User = 2 /\ tg_inp.rows[3].User = 1
    /\ \E i \in DOMAIN tg_out.rows :
          tg_out.rows[i].User = 1 /\ tg_out.rows[i].SpeedKmh.kind = "fin"
    /\ \E i \in DOMAIN tg_out.rows :
          tg_out.rows[i].User = 2 /\ HasCoords(tg_out.rows[i])

\* C20: every input row whose Timestamp parses is in the output table
\* exactly once, and the rows whose Timestamp does not parse are the only
\* rows removed.
C20_RowConservation ==
    tg_pc = "done" =>
        \A i \in DOMAIN tg_inp.rows :
            Cardinality({k \in DOMAIN tg_out.rows : tg_out.rows[k].idx = i})
                = (IF tg_inp.rows[i].Timestamp # NaT THEN 1 ELSE 0)


-----------------------------------------------------------------------------
(* ml/features.py                                                          *)

\* Bound of the pair report
MaxPairRows == 2

Computers == {1, 2}
TotalEventsVals == {7}
DistinctVals == {3}
PairEventsVals == {25000, 25001}

\* A report file: absent or unreadable ("absent"), or a table ("ok") that
\* holds its value column (hasVal) or lacks it
AbsentFile == [status |-> "absent", hasVal |-> FALSE, rows |-> <<>>]

\* lines 6-10 and the .empty tests: a file that cannot be read is the empty
\* frame, and a frame without rows is empty
IsEmpty(t) == t.status = "absent" \/ t.rows = <<>>

\* A frame: its columns and its rows; a cell of a column the frame does not
\* have is NaN in the row record
BlankRow(u) ==
    [User |-> u, TotalEvents |-> NaN, DistinctComputers |-> NaN,
     DistinctComputers_x |-> NaN, DistinctComputers_y |-> NaN,
     TopPairEvents |-> NaN, NumPairs |-> NaN, HotPairOver25k |-> NaN]

EmptyFrame == [err |-> "none", cols |-> {}, rows |-> <<>>]
KeyError == [err |-> "KeyError", cols |-> {}, rows |-> <<>>]

\* pairs["User"].unique(): the users in order of first appearance
RECURSIVE UniqueUsers(_, _)
UniqueUsers(rows, seen) ==
    IF rows = <<>> THEN <<>>
    ELSE IF Head(rows).User \in seen THEN UniqueUsers(Tail(rows), seen)
    ELSE <<Head(rows).User>> \o UniqueUsers(Tail(rows), seen \cup {Head(rows).User})

\* lines 29-39: the base frame
base_frame(users_events, users_dist, pairs) ==
    IF ~IsEmpty(users_events)
    THEN IF ~users_events.hasVal THEN KeyError
         ELSE [err |-> "none", cols |-> {"User", "TotalEvents"},
               rows |-> [i \in DOMAIN users_events.rows |->
                    [BlankRow(users_events.rows[i].User) EXCEPT
                        !.TotalEvents = users_events.rows[i].TotalEvents]]]
    ELSE IF ~IsEmpty(users_dist)
    THEN IF ~users_dist.hasVal THEN KeyError
         ELSE [err |-> "none", cols |-> {"User", "DistinctComputers", "TotalEvents"},
               rows |-> [i \in DOMAIN users_dist.rows |->
                    [BlankRow(users_dist.rows[i].User) EXCEPT
                        !.DistinctComputers = users_dist.rows[i].DistinctComputers,
                        !.TotalEvents = 0]]]
    ELSE LET us == UniqueUsers(pairs.rows, {})
         IN [err |-> "none", cols |-> {"User", "TotalEvents"},
             rows |-> [i \in DOMAIN us |-> [BlankRow(us[i]) EXCEPT !.TotalEvents = 0]]]

\* lines 41-46: the DistinctComputers column.  When base already has a
\* DistinctComputers column the merge names the two columns
\* DistinctComputers_x (left) and DistinctComputers_y (right).
add_distinct(base, users_dist) ==
    IF base.err # "none" THEN base
    ELSE IF IsEmpty(users_dist)
    THEN [base EXCEPT !.cols = @ \cup {"DistinctComputers"},
            !.rows = [i \in DOMAIN base.rows |->
                        [base.rows[i] EXCEPT !.DistinctComputers = 0]]]
    ELSE IF ~users_dist.hasVal THEN KeyError
    ELSE IF "DistinctComputers" \in base.cols
    THEN [base EXCEPT
            !.cols = (@ \ {"DistinctComputers"})
                        \cup {"DistinctComputers_x", "DistinctComputers_y"},
            !.rows = LeftMerge(base.rows, users_dist.rows,
                        LAMBDA l, r : l.User = r.User,
                        LAMBDA l, r : [l EXCEPT !.DistinctComputers = NaN,
                                          !.DistinctComputers_x = l.DistinctComputers,
                                          !.DistinctComputers_y = r.DistinctComputers],
                        LAMBDA l : [l EXCEPT !.DistinctComputers = NaN,
                                       !.DistinctComputers_x = l.DistinctComputers])]
    ELSE [base EXCEPT
            !.cols = @ \cup {"DistinctComputers"},
            !.rows = LeftMerge(base.rows, users_dist.rows,
                        LAMBDA l, r : l.User = r.User,
                        LAMBDA l, r : [l EXCEPT !.DistinctComputers = r.DistinctComputers],
                        LAMBDA l : l)]

\* lines 50-52: per user of the pair report, the max of Events and the
\* count of its non-null Events cells, in User order
RECURSIVE MaxOf(_)
MaxOf(S) ==
    IF S = {} THEN NaN
    ELSE LET x == CHOOSE y \in S : TRUE IN Max(x, MaxOf(S \ {x}))

RECURSIVE AscendingSeq(_)
AscendingSeq(S) ==
    IF S = {} THEN <<>>
    ELSE LET m == CHOOSE x \in S : \A y \in S : x <= y
         IN <<m>> \o AscendingSeq(S \ {m})

pairs_agg(rows) ==
    LET us == AscendingSeq({rows[i].User : i \in DOMAIN rows})
        cells(u) == {i \in DOMAIN rows : rows[i].User = u /\ rows[i].Events # NaN}
    IN [k \in DOMAIN us |->
          [User |-> us[k],
           TopPairEvents |-> MaxOf({rows[i].Events : i \in cells(us[k])}),
           NumPairs |-> Cardinality(cells(us[k]))]]

\* lines 48-56: the pair columns
add_pairs(base, pairs) ==
    IF base.err # "none" THEN base
    ELSE IF IsEmpty(pairs)
    THEN [base EXCEPT !.cols = @ \cup {"TopPairEvents", "NumPairs"},
            !.rows = [i \in DOMAIN base.rows |->
                        [base.rows[i] EXCEPT !.TopPairEvents = 0, !.NumPairs = 0]]]
    ELSE IF ~pairs.hasVal THEN KeyError
    ELSE [base EXCEPT
            !.cols = @ \cup {"TopPairEvents", "NumPairs"},
            !.rows = LeftMerge(base.rows, pairs_agg(pairs.rows),
                        LAMBDA l, r : l.User = r.User,
                        LAMBDA l, r : [l EXCEPT !.TopPairEvents = r.TopPairEvents,
                                          !.NumPairs = r.NumPairs],
                        LAMBDA l : l)]

HotPairThreshold == 25000

\* fillna(0) of one cell
Fill0(x) == IF x = NaN THEN 0 ELSE x

HotPairInclusive(row) ==
    IF Fill0(row.TopPairEvents) >= HotPairThreshold THEN 1 ELSE 0

\* line 59
HotPair(row) == IF Fill0(row.TopPairEvents) > HotPairThreshold THEN 1 ELSE 0

\* lines 58-69: the indicator, then fillna(0) and to_numeric on the four
\* feature columns that exist
finish_frame(base) ==
    IF base.err # "none" THEN base
    ELSE [base EXCEPT
            !.cols = @ \cup {"HotPairOver25k"},
            !.rows = [i \in DOMAIN base.rows |->
                LET r == base.rows[i]
                    fill(col, x) == IF col \in base.cols THEN Fill0(x) ELSE x
                IN [r EXCEPT
                      !.HotPairOver25k = HotPair(r),
                      !.TotalEvents = fill("TotalEvents", @),
                      !.DistinctComputers = fill("DistinctComputers", @),
                      !.TopPairEvents = fill("TopPairEvents", @),
                      !.NumPairs = fill("NumPairs", @)]]]

\* lines 12-71
build_user_features(users_events, users_dist, pairs) ==
    IF IsEmpty(users_dist) /\ IsEmpty(users_events) /\ IsEmpty(pairs)
    THEN EmptyFrame
    ELSE finish_frame(
            add_pairs(
                add_distinct(base_frame(users_events, users_dist, pairs), users_dist),
                pairs))

\* The report files the program can be given.  The two per-user reports
\* hold at most one row per user (they are group-by summaries); the pair
\* report may repeat users and (user, computer) pairs.
DistinctUserSeqs ==
    {s \in UNION {[1..k -> Users] : k \in 0..Cardinality(Users)} :
        \A i, j \in DOMAIN s : i # j => s[i] # s[j]}

PerUserFiles(field, vals) ==
    {AbsentFile}
    \cup {[status |-> "ok", hasVal |-> FALSE,
           rows |-> [i \in DOMAIN us |-> [User |-> us[i]] @@ (field :> NaN)]] :
            us \in DistinctUserSeqs}
    \cup UNION {{[status |-> "ok", hasVal |-> TRUE,
                  rows |-> [i \in DOMAIN us |-> [User |-> us[i]] @@ (field :> v[i])]] :
                    v \in [DOMAIN us -> vals \cup {NaN}]} :
                us \in DistinctUserSeqs}

PairRows(vals) ==
    {[User |-> u, Computer |-> c, Events |-> e] :
        u \in Users, c \in Computers, e \in vals}

FBInit ==
    /\ fb_pc = "input"
    /\ \E e \in PerUserFiles("TotalEvents", TotalEventsVals),
          d \in PerUserFiles("DistinctComputers", DistinctVals) :
          \/ fb_src = [events |-> e, dist |-> d, pairs |-> AbsentFile]
          \/ \E k \in 0..MaxPairRows :
               \/ \E r \in [1..k -> PairRows({NaN})] :
                    fb_src = [events |-> e, dist |-> d,
                              pairs |-> [status |-> "ok", hasVal |-> FALSE, rows |-> r]]
               \/ \E r \in [1..k -> PairRows(PairEventsVals \cup {NaN})] :
                    fb_src = [events |-> e, dist |-> d,
                              pairs |-> [status |-> "ok", hasVal |-> TRUE, rows |-> r]]
    /\ fb_res = EmptyFrame

\* One call of build_user_features on the report directory
FBBuild ==
    /\ fb_pc = "input"
    /\ fb_res' = build_user_features(fb_src.events, fb_src.dist, fb_src.pairs)
    /\ fb_pc' = "built"
    /\ UNCHANGED <<fb_src, fbOthers>>

FBNext == FBBuild

\* build_user_features is not called
FBIdle ==
    /\ fb_pc = "off"
    /\ fb_src = [events |-> AbsentFile, dist |-> AbsentFile, pairs |-> AbsentFile]
    /\ fb_res = EmptyFrame

-----------------------------------------------------------------------------
(* Claims about build_user_features                                        *)

TableUsers(t) == {t.rows[i].User : i \in DOMAIN t.rows}

SourceUsers ==
    TableUsers(fb_src.events) \cup TableUsers(fb_src.dist) \cup TableUsers(fb_src.pairs)

\* The source cells that supply a value of a field to user u
Supplied(t, field, u) ==
    {i \in DOMAIN t.rows : t.rows[i].User = u /\ t.rows[i][field] # NaN}

\* C1: every user of any of the three source tables has exactly one output
\* row, and every field of the row that no source supplies is 0.
C1_OneRowPerUser ==
    (fb_pc = "built" /\ fb_res.err = "none") =>
        \A u \in SourceUsers :
            LET R == {i \in DOMAIN fb_res.rows : fb_res.rows[i].User = u}
            IN /\ Cardinality(R) = 1
               /\ \A i \in R :
                    /\ Supplied(fb_src.events, "TotalEvents", u) = {}
                          => fb_res.rows[i].TotalEvents = 0
                    /\ Supplied(fb_src.dist, "DistinctComputers", u) = {}
                          => fb_res.rows[i].DistinctComputers = 0
                    /\ Supplied(fb_src.pairs, "Events", u) = {}
                          => /\ fb_res.rows[i].TopPairEvents = 0
                             /\ fb_res.rows[i].NumPairs = 0

\* A source that supplies nothing: absent, unreadable, empty, or without
\* its value column
Unusable(t) == IsEmpty(t) \/ ~t.hasVal

\* C2: build_user_features never raises on a missing optional source: the
\* affected field is 0 for every user, and when all three tables are absent
\* or empty the result is the empty table.
C2_NeverRaises ==
    fb_pc = "built" =>
        /\ fb_res.err = "none"
        /\ \A i \in DOMAIN fb_res.rows :
              /\ Unusable(fb_src.events) => fb_res.rows[i].TotalEvents = 0
              /\ Unusable(fb_src.dist) => fb_res.rows[i].DistinctComputers = 0
              /\ Unusable(fb_src.pairs) =>
                    fb_res.rows[i].TopPairEvents = 0 /\ fb_res.rows[i].NumPairs = 0
        /\ (IsEmpty(fb_src.events) /\ IsEmpty(fb_src.dist) /\ IsEmpty(fb_src.pairs))
              => fb_res.rows = <<>>

\* C14: in every output row HotPairOver25k is 1 exactly when the row's
\* TopPairEvents, as output, is strictly greater than 25000, and 0 otherwise:
\* 0 for TopPairEvents equal to 25000 and for a user with no pair rows.
C14_HotPairIndicator ==
    (fb_pc = "built" /\ fb_res.err = "none") =>
        \A i \in DOMAIN fb_res.rows :
            LET r == fb_res.rows[i]
            IN /\ r.HotPairOver25k \in {0, 1}
               /\ r.HotPairOver25k = 1 <=> r.TopPairEvents > HotPairThreshold
               /\ Supplied(fb_src.pairs, "Events", r.User) = {}
                     => r.TopPairEvents = 0 /\ r.HotPairOver25k = 0

C14_Witness ==
    /\ fb_pc = "built"
    /\ fb_res.err = "none"
    /\ \E i \in DOMAIN fb_res.rows :
          /\ fb_res.rows[i].TopPairEvents = HotPairThreshold
          /\ fb_res.rows[i].HotPairOver25k = 0
    /\ \E i \in DOMAIN fb_res.rows :
          /\ fb_res.rows[i].TopPairEvents = HotPairThreshold + 1
          /\ fb_res.rows[i].HotPairOver25k = 1

\* The distinct (user, computer) pairs of user u in the pair report
DistinctPairs(u) ==
    {fb_src.pairs.rows[i].Computer :
        i \in {j \in DOMAIN fb_src.pairs.rows : fb_src.pairs.rows[j].User = u}}

\* C15: for every user of the output, TopPairEvents is the maximum Events
\* value over the user's rows of the pair report and NumPairs the number of
\* distinct (user, computer) pairs of the user in it, also when (user,
\* computer) rows repeat or an Events cell is missing; both are 0 for a user
\* with no pair rows.
C15_PairFeatures ==
    (fb_pc = "built" /\ fb_res.err = "none") =>
        \A i \in DOMAIN fb_res.rows :
            LET r == fb_res.rows[i]
                ev == {fb_src.pairs.rows[j].Events :
                         j \in Supplied(fb_src.pairs, "Events", r.User)}
            IN /\ r.TopPairEvents = (IF ev = {} THEN 0 ELSE MaxOf(ev))
               /\ r.NumPairs = Cardinality(DistinctPairs(r.User))

-----------------------------------------------------------------------------
(* ml/train_unsupervised.py: train_models                                  *)

\* Bounds of the unsupervised population and of the raw detector scores
MaxUnUsers == 3
MaxRaw == 1

\* Rows of the feature table: (TotalEvents, DistinctComputers)
UnFeatVals == {<<10, 2>>, <<500, 9>>}

\* Raw detector scores (-score_samples): finite, of either sign
RawVals == (-1)..MaxRaw

\* Rationals num/den with den > 0; den = 0 marks the outcome of a division
\* by zero (numpy's nan / inf)
Rat(num, den) ==
    IF den = 0 THEN [num |-> 0, den |-> 0]
    ELSE LET g == GCD(Abs(num), Abs(den))
             sg == IF den < 0 THEN -1 ELSE 1
         IN [num |-> sg * (num \div g), den |-> sg * (den \div g)]

RInt(x) == [num |-> x, den |-> 1]
RValid(a) == a.den > 0
RLe(a, b) == a.num * b.den <= b.num * a.den
RSub(a, b) ==
    IF ~RValid(a) \/ ~RValid(b) THEN Rat(0, 0)
    ELSE Rat(a.num * b.den - b.num * a.den, a.den * b.den)
RDiv(a, b) ==
    IF ~RValid(a) \/ ~RValid(b) THEN Rat(0, 0)
    ELSE Rat(a.num * b.den, a.den * b.num)
\* 0.5 * (a + b)
RHalfSum(a, b) ==
    IF ~RValid(a) \/ ~RValid(b) THEN Rat(0, 0)
    ELSE Rat(a.num * b.den + b.num * a.den, 2 * a.den * b.den)

\* np.nanmin / np.nanmax of a non-empty sequence of valid numbers
SeqMin(a) == a[CHOOSE i \in DOMAIN a : \A j \in DOMAIN a : RLe(a[i], a[j])]
SeqMax(a) == a[CHOOSE i \in DOMAIN a : \A j \in DOMAIN a : RLe(a[j], a[i])]

norm_unguarded(a) ==
    LET lo == SeqMin(a)
        hi == SeqMax(a)
    IN [i \in DOMAIN a |-> RDiv(RSub(a[i], lo), RSub(hi, lo))]

\* lines 87-92
norm(a) ==
    LET lo == SeqMin(a)
        hi == SeqMax(a)
    IN IF RLe(hi, lo) THEN [i \in DOMAIN a |-> RInt(0)]
       ELSE [i \in DOMAIN a |-> RDiv(RSub(a[i], lo), RSub(hi, lo))]

\* lines 94-97: the score table
score_table(feats, if_scores, svm_scores) ==
    LET nif == norm(if_scores)
        nsvm == norm(svm_scores)
        ens == norm([i \in DOMAIN feats |-> RHalfSum(nif[i], nsvm[i])])
    IN [i \in DOMAIN feats |->
          [User |-> feats[i].User, IForestScore |-> nif[i],
           OCSVMScore |-> nsvm[i], EnsembleScore |-> ens[i]]]

UNInit ==
    /\ un_pc = "start"
    /\ \E k \in 1..MaxUnUsers : \E f \in [1..k -> UnFeatVals] :
          un_feats = [i \in 1..k |->
                        [User |-> i, TotalEvents |-> f[i][1],
                         DistinctComputers |-> f[i][2]]]
    /\ un_raw = [iforest |-> <<>>, ocsvm |-> <<>>]
    /\ un_out = <<>>

\* lines 64-105: the detectors are fitted on the standardized features; a
\* fitted detector's raw score is some function of a row's features
UNTrain ==
    /\ un_pc = "start"
    /\ \E fi, fs \in [UnFeatVals -> RawVals] :
          LET feat(i) == <<un_feats[i].TotalEvents, un_feats[i].DistinctComputers>>
              if_scores == [i \in DOMAIN un_feats |-> RInt(fi[feat(i)])]
              svm_scores == [i \in DOMAIN un_feats |-> RInt(fs[feat(i)])]
          IN /\ un_raw' = [iforest |-> if_scores, ocsvm |-> svm_scores]
             /\ un_out' = score_table(un_feats, if_scores, svm_scores)
    /\ un_pc' = "trained"
    /\ UNCHANGED <<un_feats, unOthers>>

UNNext == UNTrain

\* train_unsupervised.py is not run
UNIdle ==
    /\ un_pc = "off"
    /\ un_feats = <<>>
    /\ un_raw = [iforest |-> <<>>, ocsvm |-> <<>>]
    /\ un_out = <<>>

-----------------------------------------------------------------------------
(* Claims about train_models                                               *)

InUnit(a) == RValid(a) /\ 0 <= a.num /\ a.num <= a.den

AllSame(a) == \A i, j \in DOMAIN a : a[i] = a[j]

\* C3: every IForestScore, OCSVMScore and EnsembleScore is within [0,1];
\* when the raw scores of a detector are the same for all users (identical
\* features, or a single user) its normalized scores are all exactly 0, and
\* no division by zero occurs.
C3_ScoresInUnitInterval ==
    un_pc = "trained" =>
        /\ \A i \in DOMAIN un_out :
              /\ InUnit(un_out[i].IForestScore)
              /\ InUnit(un_out[i].OCSVMScore)
              /\ InUnit(un_out[i].EnsembleScore)
        /\ AllSame(un_raw.iforest)
              => \A i \in DOMAIN un_out : un_out[i].IForestScore = RInt(0)
        /\ AllSame(un_raw.ocsvm)
              => \A i \in DOMAIN un_out : un_out[i].OCSVMScore = RInt(0)
        /\ (\A i, j \in DOMAIN un_feats :
                /\ un_feats[i].TotalEvents = un_feats[j].TotalEvents
                /\ un_feats[i].DistinctComputers = un_feats[j].DistinctComputers)
              => \A i \in DOMAIN un_out :
                    /\ un_out[i].IForestScore = RInt(0)
                    /\ un_out[i].OCSVMScore = RInt(0)
                    /\ un_out[i].EnsembleScore = RInt(0)

C3_Witness ==
    /\ un_pc = "trained"
    /\ Len(un_out) = 3
    /\ AllSame(un_raw.iforest)
    /\ ~AllSame(un_raw.ocsvm)
    /\ \E i \in DOMAIN un_out : un_out[i].OCSVMScore = RInt(1)
    /\ \E i \in DOMAIN un_out : un_out[i].EnsembleScore = RInt(1)
    /\ \A i \in DOMAIN un_out : un_out[i].IForestScore = RInt(0)

-----------------------------------------------------------------------------
(* ml/train_unsupervised.py: load_reports and main                         *)

\* Bound of the two per-user reports read by load_reports
MaxReportRows == 2

\* A cell holding text that float() cannot convert
Unparseable == -2

\* The cells of a value column: a number, an empty cell, or text
ReportVals(v) == {v, NaN, Unparseable}

\* A report file: it does not exist ("missing"), it exists but pd.read_csv
\* raises on it ("unreadable": zero bytes, not a table), or it is a table
\* ("ok") that holds its two required columns (hasCols) or lacks one
ReportFiles(v) ==
    {[status |-> "missing", hasCols |-> FALSE, rows |-> <<>>],
     [status |-> "unreadable", hasCols |-> FALSE, rows |-> <<>>],
     [status |-> "ok", hasCols |-> FALSE, rows |-> <<[User |-> 1, val |-> v]>>]}
    \cup UNION {{[status |-> "ok", hasCols |-> TRUE, rows |-> r] :
                    r \in [1..k -> [User : Users, val : ReportVals(v)]]} :
                k \in 0..MaxReportRows}

\* lines 29-32 / 39-42: the loop over the rows stores float(value) under
\* the user; a later row of the same user overwrites an earlier one
RECURSIVE StoreRows(_, _)
StoreRows(rows, d) ==
    IF rows = <<>> THEN d
    ELSE StoreRows(Tail(rows), (Head(rows).User :> Head(rows).val) @@ d)

\* lines 26-32 / 36-42: what one report contributes: an exception of
\* pd.read_csv or float(), or the values stored per user
read_report(f) ==
    IF f.status = "missing" THEN [err |-> "none", vals |-> <<>>]
    ELSE IF f.status = "unreadable" THEN [err |-> "EmptyDataError", vals |-> <<>>]
    ELSE IF ~f.hasCols THEN [err |-> "none", vals |-> <<>>]
    ELSE IF \E i \in DOMAIN f.rows : f.rows[i].val = Unparseable
    THEN [err |-> "ValueError", vals |-> <<>>]
    ELSE [err |-> "none", vals |-> StoreRows(f.rows, <<>>)]

\* v.get(key, 0.0)
GetOr0(vals, u) == IF u \in DOMAIN vals THEN vals[u] ELSE 0

\* lines 14-61
load_reports(events, dist) ==
    LET e == read_report(events)
        d == read_report(dist)
        us == AscendingSeq(DOMAIN e.vals \cup DOMAIN d.vals)
    IN IF e.err # "none" THEN [err |-> e.err, rows |-> <<>>]
       ELSE IF d.err # "none" THEN [err |-> d.err, rows |-> <<>>]
       ELSE IF us = <<>> THEN [err |-> "FileNotFoundError", rows |-> <<>>]
       ELSE [err |-> "none",
             rows |-> [i \in DOMAIN us |->
                         [User |-> us[i],
                          TotalEvents |-> GetOr0(e.vals, us[i]),
                          DistinctComputers |-> GetOr0(d.vals, us[i])]]]

\* outdir: the artifacts of a run
UMArtifacts == {"AnomalyScores.csv", "scaler.joblib", "iforest.joblib",
                "ocsvm.joblib", "feature_columns.json"}

UMInit ==
    /\ um_pc = "start"
    /\ \E e \in ReportFiles(7), d \in ReportFiles(3) :
          um_src = [events |-> e, dist |-> d]
    /\ um_feats = <<>>
    /\ um_scores = <<>>
    /\ um_files = {}
    /\ um_err = "none"

\* lines 114-120
UMLoad ==
    /\ um_pc = "start"
    /\ LET res == load_reports(um_src.events, um_src.dist)
       IN IF res.err # "none"
          THEN um_pc' = "failed" /\ um_err' = res.err /\ um_feats' = um_feats
          ELSE um_pc' = "loaded" /\ um_err' = um_err /\ um_feats' = res.rows
    /\ UNCHANGED <<um_src, um_scores, um_files, umOthers>>

\* line 123: train_models on df_feats (line 67 fills the empty cells with
\* 0); a fitted detector's raw score is some function of a row's features
UMTrain ==
    /\ um_pc = "loaded"
    /\ LET feat(i) == <<Fill0(um_feats[i].TotalEvents),
                        Fill0(um_feats[i].DistinctComputers)>>
           cells == {feat(i) : i \in DOMAIN um_feats}
       IN \E fi, fs \in [cells -> RawVals] :
             um_scores' = score_table(um_feats,
                             [i \in DOMAIN um_feats |-> RInt(fi[feat(i)])],
                             [i \in DOMAIN um_feats |-> RInt(fs[feat(i)])])
    /\ um_pc' = "trained"
    /\ UNCHANGED <<um_src, um_feats, um_files, um_err, umOthers>>

\* One write of main: it creates the artifact, or it raises (OSError: disk
\* full, no permission) and the run ends there
UMSave(to, artifact) ==
    \/ um_files' = um_files \cup {artifact} /\ um_pc' = to /\ um_err' = um_err
    \/ um_files' = um_files /\ um_pc' = "failed" /\ um_err' = "OSError"

\* lines 126-128
UMWriteScores ==
    /\ um_pc = "trained"
    /\ UMSave("scores", "AnomalyScores.csv")
    /\ UNCHANGED <<um_src, um_feats, um_scores, umOthers>>

\* line 131
UMDumpScaler ==
    /\ um_pc = "scores"
    /\ UMSave("scaler", "scaler.joblib")
    /\ UNCHANGED <<um_src, um_feats, um_scores, umOthers>>

\* line 132
UMDumpIForest ==
    /\ um_pc = "scaler"
    /\ UMSave("iforest", "iforest.joblib")
    /\ UNCHANGED <<um_src, um_feats, um_scores, umOthers>>

\* line 133
UMDumpOCSVM ==
    /\ um_pc = "iforest"
    /\ UMSave("ocsvm", "ocsvm.joblib")
    /\ UNCHANGED <<um_src, um_feats, um_scores, umOthers>>

\* lines 134-139
UMWriteColumns ==
    /\ um_pc = "ocsvm"
    /\ UMSave("done", "feature_columns.json")
    /\ UNCHANGED <<um_src, um_feats, um_scores, umOthers>>

UMNext ==
    \/ UMLoad \/ UMTrain \/ UMWriteScores \/ UMDumpScaler \/ UMDumpIForest
    \/ UMDumpOCSVM \/ UMWriteColumns

\* main of train_unsupervised.py is not run
UMIdle ==
    /\ um_pc = "off"
    /\ um_src = [events |-> [status |-> "missing", hasCols |-> FALSE, rows |-> <<>>],
                 dist |-> [status |-> "missing", hasCols |-> FALSE, rows |-> <<>>]]
    /\ um_feats = <<>>
    /\ um_scores = <<>>
    /\ um_files = {}
    /\ um_err = "none"

-----------------------------------------------------------------------------
(* Claims about load_reports and main of train_unsupervised.py             *)

\* The users a source yields: none when the file is missing, lacks a
\* required column or has no rows
YieldedUsers(f) ==
    IF f.status = "ok" /\ f.hasCols THEN {f.rows[i].User : i \in DOMAIN f.rows}
    ELSE {}

\* load_reports raised (a failed write of main is the only other failure)
LoadRaised == um_pc = "failed" /\ um_err # "OSError"

\* C13: load_reports raises exactly when neither source yields a user row
\* (each file missing, lacking its required columns, or without rows);
\* otherwise it returns exactly one row per distinct user of the union of the
\* two sources, sorted by User, with TotalEvents or DistinctComputers 0 for a
\* user that the source of that field does not hold.
C13_LoadReports ==
    um_pc # "start" =>
        LET users == YieldedUsers(um_src.events) \cup YieldedUsers(um_src.dist)
        IN /\ LoadRaised <=> users = {}
           /\ ~LoadRaised =>
                 /\ {um_feats[i].User : i \in DOMAIN um_feats} = users
                 /\ \A i, j \in DOMAIN um_feats :
                       i < j => um_feats[i].User < um_feats[j].User
                 /\ \A i \in DOMAIN um_feats :
                       /\ um_feats[i].User \notin YieldedUsers(um_src.events)
                             => um_feats[i].TotalEvents = 0
                       /\ um_feats[i].User \notin YieldedUsers(um_src.dist)
                             => um_feats[i].DistinctComputers = 0

\* C18: wherever a run of train_unsupervised.py ends, normally or by the
\* failure of a step, it has written all of its artifacts (score table,
\* scaler, both detectors, feature-column list) or none of them.
C18_AllOrNothing ==
    um_pc \in {"done", "failed"} => um_files = {} \/ um_files = UMArtifacts

-----------------------------------------------------------------------------
(* ml/train_supervised.py                                                  *)

\* Bound of the supervised population: the users are 1..MaxSupUsers
MaxSupUsers == 6

SupUsers == 1..MaxSupUsers

NoLabel == NaN

\* The feature cell of a user (one numeric column stands for X_cols)
FeatureOf(u) == 10 * u

NoLabels == [u \in SupUsers |-> NoLabel]

Unfitted == [fitted |-> FALSE, n |-> 0, sum |-> 0, sumsq |-> 0]
NoClf == [fitted |-> FALSE, classes |-> {}, train |-> {}]
NoSplit == [tr |-> {}, te |-> {}, held |-> FALSE]
NoScores == [written |-> FALSE, rows |-> <<>>]

SPInit ==
    /\ sp_pc = "start"
    /\ \E k \in 0..MaxSupUsers :
          sp_feats = [i \in 1..k |-> [User |-> i, x |-> FeatureOf(i)]]
    /\ \/ sp_labels = [status |-> "missing", label |-> NoLabels]
       \/ sp_labels = [status |-> "nocols", label |-> NoLabels]
       \/ \E l \in [SupUsers -> {0, 1, NoLabel}] :
             sp_labels = [status |-> "ok", label |-> l]
    /\ sp_df = <<>>
    /\ sp_split = NoSplit
    /\ sp_scaler = Unfitted
    /\ sp_clf = NoClf
    /\ sp_out = NoScores
    /\ sp_imp = [written |-> FALSE]
    /\ sp_log = {}
    /\ sp_err = "none"

\* sys.exit(...)
SPExit ==
    /\ sp_pc' = "exit"
    /\ sp_err' = "SystemExit"

SPRaise(e) ==
    /\ sp_pc' = "failed"
    /\ sp_err' = e

\* lines 19-21
SPFeatures ==
    /\ sp_pc = "start"
    /\ IF sp_feats = <<>> THEN SPExit
       ELSE sp_pc' = "features" /\ sp_err' = sp_err
    /\ UNCHANGED <<sp_feats, sp_labels, sp_df, sp_split, sp_scaler, sp_clf,
                   sp_out, sp_imp, sp_log, spOthers>>

\* lines 24-30: the labels file must be readable and hold User and label
LabelsFatal(labels) == labels.status \in {"missing", "nocols"}

SPLabels ==
    /\ sp_pc = "features"
    /\ IF LabelsFatal(sp_labels) THEN SPExit
       ELSE sp_pc' = "labels" /\ sp_err' = sp_err
    /\ UNCHANGED <<sp_feats, sp_labels, sp_df, sp_split, sp_scaler, sp_clf,
                   sp_out, sp_imp, sp_log, spOthers>>

\* line 33: feats.merge(labels, on="User", how="inner")
inner_join(feats, labels) ==
    LET hit == SelectSeq(feats, LAMBDA r : labels.label[r.User] # NoLabel)
    IN [i \in DOMAIN hit |->
          [User |-> hit[i].User, x |-> hit[i].x, label |-> labels.label[hit[i].User]]]

JoinNeverFatal(df) == FALSE

\* line 34
JoinFatal(df) == df = <<>>

SPJoin ==
    /\ sp_pc = "labels"
    /\ sp_df' = inner_join(sp_feats, sp_labels)
    /\ IF JoinFatal(sp_df') THEN SPExit
       ELSE sp_pc' = "joined" /\ sp_err' = sp_err
    /\ UNCHANGED <<sp_feats, sp_labels, sp_split, sp_scaler, sp_clf,
                   sp_out, sp_imp, sp_log, spOthers>>

\* lines 43-44: the labels present and their counts
ClassRows(df, c) == {i \in DOMAIN df : df[i].label = c}
ClassCount(df, c) == Cardinality(ClassRows(df, c))
Classes(df) == {df[i].label : i \in DOMAIN df}

can_stratify_any_count(df) == Cardinality(Classes(df)) = 2

\* line 48
can_stratify(df) ==
    /\ Cardinality(Classes(df)) = 2
    /\ \A c \in Classes(df) : ClassCount(df, c) >= 2

\* line 49 and train_test_split: n_test = ceil(test_size * n), with
\* test_size 0.3 (n >= 4) or 0.5
NTest(n) == IF n >= 4 THEN (3 * n + 9) \div 10 ELSE (n + 1) \div 2

\* StratifiedShuffleSplit's allocation of n_train draws to the two classes
\* (_approximate_mode): the floor of each class's share, the draw left over
\* to the class with the larger remainder, a tie broken at random
TrainPerClass(c0, c1, ntr) ==
    LET n == c0 + c1
        f0 == (c0 * ntr) \div n
        f1 == (c1 * ntr) \div n
        r0 == (c0 * ntr) % n
        r1 == (c1 * ntr) % n
    IN IF f0 + f1 = ntr THEN {<<f0, f1>>}
       ELSE IF r0 > r1 THEN {<<f0 + 1, f1>>}
       ELSE IF r1 > r0 THEN {<<f0, f1 + 1>>}
       ELSE {<<f0 + 1, f1>>, <<f0, f1 + 1>>}

\* lines 51-62: the train / held-out positions the split can produce
Splits(df) ==
    LET n == Len(df)
        all == DOMAIN df
    IN IF n < 3 THEN {[tr |-> all, te |-> {}, held |-> FALSE]}
       ELSE IF can_stratify(df)
       THEN {[tr |-> t, te |-> all \ t, held |-> TRUE] :
                t \in {t \in SUBSET all :
                    <<Cardinality(t \cap ClassRows(df, 0)),
                      Cardinality(t \cap ClassRows(df, 1))>>
                        \in TrainPerClass(ClassCount(df, 0), ClassCount(df, 1),
                                          n - NTest(n))}}
       ELSE {[tr |-> all \ t, te |-> t, held |-> TRUE] :
                t \in {t \in SUBSET all : Cardinality(t) = NTest(n)}}

\* lines 37-64
SPSplit ==
    /\ sp_pc = "joined"
    /\ \E sp \in Splits(sp_df) : sp_split' = sp
    /\ sp_log' = sp_log
                   \cup (IF Len(sp_df) < 3 THEN {"train on all labeled data"} ELSE {})
                   \cup (IF Len(sp_df) >= 3 /\ ~can_stratify(sp_df)
                         THEN {"non-stratified split"} ELSE {})
    /\ sp_pc' = "split"
    /\ UNCHANGED <<sp_feats, sp_labels, sp_df, sp_scaler, sp_clf,
                   sp_out, sp_imp, sp_err, spOthers>>

\* StandardScaler.fit on the rows at positions rows of a frame: the
\* statistics that fix mean_ and scale_
ScalerFit(frame, rows) ==
    [fitted |-> TRUE,
     n |-> Cardinality(rows),
     sum |-> SumOver(rows, [i \in DOMAIN frame |-> frame[i].x]),
     sumsq |-> SumOver(rows, [i \in DOMAIN frame |-> frame[i].x * frame[i].x])]

\* RandomForestClassifier.fit: classes_ are the labels seen in training
ClfFit(df, rows) ==
    [fitted |-> TRUE,
     classes |-> {df[i].label : i \in rows},
     train |-> {df[i].User : i \in rows}]

\* lines 66-75
SPFit ==
    /\ sp_pc = "split"
    /\ sp_scaler' = ScalerFit(sp_df, sp_split.tr)
    /\ sp_clf' = ClfFit(sp_df, sp_split.tr)
    /\ sp_pc' = "fitted"
    /\ UNCHANGED <<sp_feats, sp_labels, sp_df, sp_split,
                   sp_out, sp_imp, sp_log, sp_err, spOthers>>

\* predict_proba(...)[:, 1]: predict_proba has one column per class of
\* classes_, so column 1 exists only when two classes were seen in training
HasProbaColumn1(clf) == Cardinality(clf.classes) >= 2

\* lines 77-87
SPReport ==
    /\ sp_pc = "fitted"
    /\ IF ~sp_split.held
       THEN sp_pc' = "reported" /\ sp_err' = sp_err /\ sp_log' = sp_log
       ELSE IF ~HasProbaColumn1(sp_clf)
       THEN SPRaise("IndexError") /\ sp_log' = sp_log
       ELSE /\ sp_pc' = "reported"
            /\ sp_err' = sp_err
            /\ sp_log' = sp_log \cup {"classification report"}
                  \cup (IF Cardinality({sp_df[i].label : i \in sp_split.te}) < 2
                        THEN {"ROC-AUC: n/a"} ELSE {"ROC-AUC"})
    /\ UNCHANGED <<sp_feats, sp_labels, sp_df, sp_split, sp_scaler, sp_clf,
                   sp_out, sp_imp, spOthers>>

CVSplits == 5

\* line 90
cv_wanted(df) == Len(df) >= 5 /\ Cardinality(Classes(df)) > 1

\* StratifiedKFold.split raises ValueError when n_splits exceeds the number
\* of members of every class
cv_raises(df) == \A c \in Classes(df) : CVSplits > ClassCount(df, c)

\* lines 89-97: cross_val_score clones clf; scaler.fit_transform(X) re-fits
\* the scaler on the labeled rows
SPCrossVal ==
    /\ sp_pc = "reported"
    /\ IF ~cv_wanted(sp_df)
       THEN /\ sp_pc' = "cv" /\ sp_err' = sp_err
            /\ sp_log' = sp_log \cup {"cross-validation skipped"}
            /\ sp_scaler' = sp_scaler
       ELSE IF cv_raises(sp_df)
       THEN SPRaise("ValueError") /\ sp_log' = sp_log /\ sp_scaler' = sp_scaler
       ELSE /\ sp_pc' = "cv" /\ sp_err' = sp_err
            /\ sp_log' = sp_log \cup {"cross-validation F1"}
            /\ sp_scaler' = ScalerFit(sp_df, DOMAIN sp_df)
    /\ UNCHANGED <<sp_feats, sp_labels, sp_df, sp_split, sp_clf,
                   sp_out, sp_imp, spOthers>>

ScoredRowsLabeled(feats, df) == df

\* lines 100-102: the rows that are scored
ScoredRows(feats, df) == feats

\* lines 99-106: score the rows and write the score table
SPScore ==
    /\ sp_pc = "cv"
    /\ IF ~HasProbaColumn1(sp_clf)
       THEN SPRaise("IndexError") /\ sp_out' = sp_out
       ELSE /\ sp_pc' = "scored" /\ sp_err' = sp_err
            /\ sp_out' =
                 [written |-> TRUE,
                  rows |-> LET rs == ScoredRows(sp_feats, sp_df)
                           IN [i \in DOMAIN rs |->
                                 [User |-> rs[i].User,
                                  Sup_ProbBad |-> [x |-> rs[i].x,
                                                   scaler |-> sp_scaler,
                                                   clf |-> sp_clf.train]]]]
    /\ UNCHANGED <<sp_feats, sp_labels, sp_df, sp_split, sp_scaler, sp_clf,
                   sp_imp, sp_log, spOthers>>

\* lines 108-116
SPImportances ==
    /\ sp_pc = "scored"
    /\ sp_imp' = [written |-> TRUE]
    /\ sp_pc' = "done"
    /\ UNCHANGED <<sp_feats, sp_labels, sp_df, sp_split, sp_scaler, sp_clf,
                   sp_out, sp_log, sp_err, spOthers>>

SPNext ==
    \/ SPFeatures \/ SPLabels \/ SPJoin \/ SPSplit \/ SPFit
    \/ SPReport \/ SPCrossVal \/ SPScore \/ SPImportances

\* train_supervised.py is not run
SPIdle ==
    /\ sp_pc = "off"
    /\ sp_feats = <<>>
    /\ sp_labels = [status |-> "missing", label |-> NoLabels]
    /\ sp_df = <<>>
    /\ sp_split = NoSplit
    /\ sp_scaler = Unfitted
    /\ sp_clf = NoClf
    /\ sp_out = NoScores
    /\ sp_imp = [written |-> FALSE]
    /\ sp_log = {}
    /\ sp_err = "none"

-----------------------------------------------------------------------------
(* Claims about supervised training                                        *)

\* C4: in every run that completes, the written score table holds exactly
\* one probability row for each row of the feature table, labeled or not, in
\* feature-table order.
C4_ScoresEveryUser ==
    sp_pc = "done" =>
        /\ sp_out.written
        /\ Len(sp_out.rows) = Len(sp_feats)
        /\ \A i \in DOMAIN sp_feats :
              /\ sp_out.rows[i].User = sp_feats[i].User
              /\ sp_out.rows[i].Sup_ProbBad.x = sp_feats[i].x
        /\ \A u \in {sp_feats[i].User : i \in DOMAIN sp_feats} :
              Cardinality({i \in DOMAIN sp_out.rows : sp_out.rows[i].User = u}) = 1

C4_Witness ==
    /\ sp_pc = "done"
    /\ Len(sp_feats) = MaxSupUsers
    /\ Len(sp_df) < Len(sp_feats)
    /\ sp_split.held
    /\ \E i \in DOMAIN sp_out.rows : sp_labels.label[sp_out.rows[i].User] = NoLabel
    /\ \E i \in DOMAIN sp_out.rows : sp_labels.label[sp_out.rows[i].User] # NoLabel

\* The run has got past the join
SPJoined == sp_pc \in {"joined", "split", "fitted", "reported", "cv",
                       "scored", "done", "failed"}

SPSplitDone == sp_pc \in {"split", "fitted", "reported", "cv", "scored", "done"}

\* C5: with 1 or 2 labeled examples, of either or both classes, the run
\* makes no train/test split, fits on all labeled rows, does not raise, and
\* writes a probability for every user of the feature table.
C5_FewLabels ==
    (SPJoined /\ Len(sp_df) \in {1, 2}) =>
        /\ sp_pc # "failed"
        /\ SPSplitDone => ~sp_split.held /\ sp_split.tr = DOMAIN sp_df
        /\ sp_clf.fitted => sp_clf.train = {sp_df[i].User : i \in DOMAIN sp_df}
        /\ sp_pc = "done" =>
              /\ sp_out.written
              /\ {sp_out.rows[i].User : i \in DOMAIN sp_out.rows}
                    = {sp_feats[i].User : i \in DOMAIN sp_feats}

HeldOutSingleClass ==
    /\ sp_split.held
    /\ Cardinality({sp_df[i].label : i \in sp_split.te}) = 1

\* C6: with a held-out split whose held-out set holds one class, whatever
\* the classes of the training split, the run does not raise, reports
\* ROC-AUC as undefined, and goes on to the final scoring pass and writes the
\* score table.
C6_SingleClassHeldOut ==
    (SPSplitDone \/ sp_pc = "failed") /\ HeldOutSingleClass =>
        /\ sp_pc # "failed"
        /\ sp_pc \in {"reported", "cv", "scored", "done"} => "ROC-AUC: n/a" \in sp_log
        /\ sp_pc \in {"scored", "done"} => sp_out.written

\* The labels cannot be used: the file is missing or unreadable, lacks a
\* column, or labels no user of the feature table
LabelsUnusable ==
    \/ sp_labels.status \in {"missing", "nocols"}
    \/ \A i \in DOMAIN sp_feats : sp_labels.label[sp_feats[i].User] = NoLabel

\* C7: when the labels file is missing, unreadable, lacks User or label, or
\* its join with the features is empty, the run ends in a fatal error before
\* any model is fitted and writes neither the score table nor the
\* feature-importance table.
C7_FatalLabelErrors ==
    LabelsUnusable =>
        /\ sp_pc \in {"start", "features", "labels", "exit"}
        /\ sp_pc = "exit" => sp_err = "SystemExit"
        /\ sp_pc # "exit" => ENABLED SPNext
        /\ ~sp_scaler.fitted /\ ~sp_clf.fitted
        /\ ~sp_out.written /\ sp_out.rows = <<>>
        /\ ~sp_imp.written

C7_Witness ==
    /\ sp_pc = "exit"
    /\ sp_err = "SystemExit"
    /\ sp_labels.status = "ok"
    /\ sp_df = <<>>
    /\ Len(sp_feats) >= 2
    /\ \E u \in SupUsers : sp_labels.label[u] # NoLabel

\* The held-out set holds the fraction num/den of the n labeled rows, as
\* train_test_split rounds it: the least whole number of rows not below it
HeldOutFraction(num, den) ==
    LET n == Len(sp_df)
        k == Cardinality(sp_split.te)
    IN /\ sp_split.held
       /\ sp_split.tr \cup sp_split.te = DOMAIN sp_df
       /\ sp_split.tr \cap sp_split.te = {}
       /\ den * k >= num * n
       /\ den * (k - 1) < num * n

\* Both classes are present with at least 2 examples each
BothClassesTwice == ClassCount(sp_df, 0) >= 2 /\ ClassCount(sp_df, 1) >= 2

\* The training set holds each class in proportion: its number of rows of a
\* class is less than one row away from that class's share
SplitIsStratified ==
    \A c \in {0, 1} :
        LET got == Cardinality(sp_split.tr \cap ClassRows(sp_df, c)) * Len(sp_df)
            share == ClassCount(sp_df, c) * Cardinality(sp_split.tr)
        IN got - share < Len(sp_df) /\ share - got < Len(sp_df)

\* C11: split policy.  Fewer than 3 labeled rows: no held-out set, training
\* on all labeled rows.  3 rows: a split holding out the fraction 0.5.  4 or
\* more: a split holding out the fraction 0.3.  The split is stratified
\* exactly when both classes have at least 2 examples; otherwise it is a
\* non-stratified split, a warning is printed and the run goes on.
C11_SplitPolicy ==
    sp_pc = "split" =>
        LET n == Len(sp_df)
        IN /\ n < 3 => ~sp_split.held /\ sp_split.te = {}
                          /\ sp_split.tr = DOMAIN sp_df
           /\ n = 3 => HeldOutFraction(1, 2)
           /\ n >= 4 => HeldOutFraction(3, 10)
           /\ (n >= 3 /\ BothClassesTwice) =>
                 SplitIsStratified /\ "non-stratified split" \notin sp_log
           /\ (n >= 3 /\ ~BothClassesTwice) =>
                 "non-stratified split" \in sp_log /\ sp_err = "none"

C11_Witness ==
    /\ sp_pc = "split"
    /\ Len(sp_df) = 5
    /\ BothClassesTwice
    /\ Cardinality(sp_split.te) = 2
    /\ Cardinality(sp_split.tr \cap ClassRows(sp_df, 1)) = 2
    /\ "non-stratified split" \notin sp_log

\* C12: when the probabilities of all users are computed, the standardizer
\* holds statistics re-fitted on the entire feature table (every user,
\* labeled or not), so they do not depend on the rows of the training split.
C12_ScalerRefitOnAllUsers ==
    sp_pc \in {"scored", "done"} =>
        \A i \in DOMAIN sp_out.rows :
            sp_out.rows[i].Sup_ProbBad.scaler
                = ScalerFit(sp_feats, DOMAIN sp_feats)

\* C16: the cross-validation step is purely diagnostic: it leaves the fitted
\* classifier and the fitted standardizer unchanged, so the final scoring
\* pass is the same whether the step ran or was skipped.
C16_CrossValIsDiagnostic ==
    [][SPCrossVal => (sp_scaler' = sp_scaler /\ sp_clf' = sp_clf)]_vars

-----------------------------------------------------------------------------
(* Specifications: one per program, the other programs not running         *)

InitTimeGeo == TGInit /\ FBIdle /\ UNIdle /\ UMIdle /\ SPIdle
SpecTimeGeo == InitTimeGeo /\ [][TGNext]_vars

InitFeatures == FBInit /\ TGIdle /\ UNIdle /\ UMIdle /\ SPIdle
SpecFeatures == InitFeatures /\ [][FBNext]_vars

InitUnsupervised == UNInit /\ TGIdle /\ FBIdle /\ UMIdle /\ SPIdle
SpecUnsupervised == InitUnsupervised /\ [][UNNext]_vars

InitUnsupervisedMain == UMInit /\ TGIdle /\ FBIdle /\ UNIdle /\ SPIdle
SpecUnsupervisedMain == InitUnsupervisedMain /\ [][UMNext]_vars

InitSupervised == SPInit /\ TGIdle /\ FBIdle /\ UNIdle /\ UMIdle
SpecSupervised == InitSupervised /\ [][SPNext]_vars

=============================================================================
